---------------------------- MODULE Spec2Model ----------------------------
(***************************************************************************)
(* A model of the voice assistant's decision pipeline:                     *)
(*   rule classifier -> hybrid cascade -> policy layer -> capability       *)
(*   registry -> execution controller, driven by the main loop of main.py. *)
(*                                                                         *)
(* Conventions.                                                            *)
(*  - Texts, slot values and messages are strings; Python's str methods    *)
(*    (lower, strip, split, in, startswith, replace) are operators that    *)
(*    compute on the characters.                                           *)
(*  - A float score, confidence or similarity x is the integer 100 * x     *)
(*    (0.75 is 75, 0.83 is 83, 1.0 is 100).  Every score of the rule       *)
(*    classifier is a sum of multiples of 0.1.                             *)
(*  - A dict is the set of its <<key, value>> pairs; an optional value is  *)
(*    None (the empty sequence) or Some(x).                                *)
(*  - The embedding model and the operating system are outside the         *)
(*    program: the result of semantic_match and the outcome of starting an *)
(*    external command are chosen nondeterministically.                    *)
(***************************************************************************)
EXTENDS Integers, Sequences, FiniteSets, TLC

VARIABLES
    pc,               \* position of the caller: the main loop's stage, or the phase of a direct call
    assistant_running,\* main.py: the lifecycle flag of the loop
    text,             \* the transcript of the turn / the argument of classify_hybrid
    rule_result,      \* classify_hybrid: local rule_result
    hybrid_result,    \* classify_hybrid: the returned result_data
    semantic_calls,   \* number of semantic_match invocations made by the last classify_hybrid call
    semantic_engine,  \* semantic_engine.py: the module-level _semantic_engine (None or loaded)
    intent_result,    \* the IntentResult handed to decide_action / execute_intent
    response_text,    \* decide_action: first component of the returned tuple
    should_execute,   \* decide_action: second component of the returned tuple
    execution_message,\* main.py: the text that will be spoken
    exec_result,      \* execute_intent: the returned ExecutionResult (None before a call)
    handler,          \* the handler execute_intent dispatched to in the last call ("none" if none ran)
    started,          \* argument lists of the external processes started by the last call
    ran,              \* the subprocess calls the last execute_intent made, with their outcomes
    spoken,           \* the response synthesized and played at the end of the turn (None if none yet)
    temp_files,       \* main.py: the temporary WAV files of the turn that exist
    exit_status,      \* the exit status of the process (None while it runs)
    constructed,      \* semantic_engine.py: how many times SemanticEngine() has run in the process
    threads,          \* the callers of semantic_match: where each is inside get_semantic_engine
    serialized        \* whether the callers of semantic_match run one after the other

vars == <<pc, assistant_running, text, rule_result, hybrid_result, semantic_calls,
          semantic_engine, intent_result, response_text, should_execute,
          execution_message, exec_result, handler, started, ran, spoken,
          temp_files, exit_status, constructed, threads, serialized>>

None == << >>
Some(x) == <<x>>

-----------------------------------------------------------------------------
(* Python str operations *)

Char(s, i) == SubSeq(s, i, i)

UPPERCASE == "ABCDEFGHIJKLMNOPQRSTUVWXYZ"
LOWERCASE == "abcdefghijklmnopqrstuvwxyz"

LowerChar(c) ==
    IF \E i \in 1..Len(UPPERCASE) : Char(UPPERCASE, i) = c
    THEN Char(LOWERCASE, CHOOSE i \in 1..Len(UPPERCASE) : Char(UPPERCASE, i) = c)
    ELSE c

RECURSIVE lower(_)
lower(s) == IF Len(s) = 0 THEN "" ELSE LowerChar(Char(s, 1)) \o lower(SubSeq(s, 2, Len(s)))

IsSpace(c) == c \in {" ", "\t", "\n"}

RECURSIVE lstrip(_)
lstrip(s) == IF Len(s) > 0 /\ IsSpace(Char(s, 1)) THEN lstrip(SubSeq(s, 2, Len(s))) ELSE s

RECURSIVE rstrip(_)
rstrip(s) == IF Len(s) > 0 /\ IsSpace(Char(s, Len(s))) THEN rstrip(SubSeq(s, 1, Len(s) - 1)) ELSE s

strip(s) == rstrip(lstrip(s))

\* k in t
In(k, t) == \E i \in 1..(Len(t) - Len(k) + 1) : SubSeq(t, i, i + Len(k) - 1) = k

startswith(t, k) == Len(k) <= Len(t) /\ SubSeq(t, 1, Len(k)) = k

\* s.split(): the maximal runs of non-whitespace characters, in order
RECURSIVE SplitFrom(_, _, _)
SplitFrom(s, i, cur) ==
    IF i > Len(s)
    THEN IF cur = "" THEN << >> ELSE <<cur>>
    ELSE IF IsSpace(Char(s, i))
         THEN (IF cur = "" THEN << >> ELSE <<cur>>) \o SplitFrom(s, i + 1, "")
         ELSE SplitFrom(s, i + 1, cur \o Char(s, i))

split(s) == SplitFrom(s, 1, "")

\* s.replace(old, new) for a non-empty old: leftmost non-overlapping occurrences
RECURSIVE replace(_, _, _)
replace(s, old, new) ==
    IF Len(s) < Len(old) THEN s
    ELSE IF SubSeq(s, 1, Len(old)) = old
         THEN new \o replace(SubSeq(s, Len(old) + 1, Len(s)), old, new)
         ELSE Char(s, 1) \o replace(SubSeq(s, 2, Len(s)), old, new)

\* the elements of a sequence
Range(q) == {q[i] : i \in 1..Len(q)}

-----------------------------------------------------------------------------
(* schemas.py *)

\* class Intent, in the order of its members
Intent == <<"OPEN_APP", "CLOSE_APP", "SEARCH_WEB", "PLAY_MUSIC", "STOP_MUSIC",
            "GET_TIME", "GET_DATE", "SYSTEM_INFO", "GREETING", "EXIT",
            "PLAY_YOUTUBE", "SEARCH_YOUTUBE", "UNKNOWN">>

Intents == Range(Intent)

\* IntentResult(intent, confidence, slots, raw_text)
IntentResult(i, c, s, t) == [intent |-> i, confidence |-> c, slots |-> s, raw_text |-> t]

\* dict access on a set of <<key, value>> pairs
HasKey(d, k) == \E p \in d : p[1] = k
Lookup(d, k) == (CHOOSE p \in d : p[1] = k)[2]
Keys(d) == {p[1] : p \in d}

-----------------------------------------------------------------------------
(* intents.py *)

\* INTENT_PATTERNS.get(intent, []): the keywords of an intent, in list order
INTENT_PATTERNS(intent) ==
    CASE intent = "OPEN_APP"       -> <<"open", "launch", "start", "run">>
      [] intent = "CLOSE_APP"      -> <<"close", "quit", "exit", "kill", "stop">>
      [] intent = "SEARCH_WEB"     -> <<"search", "google", "look up", "find">>
      [] intent = "STOP_MUSIC"     -> <<"stop", "pause", "halt">>
      [] intent = "GET_TIME"       -> <<"time", "what time", "current time">>
      [] intent = "GET_DATE"       -> <<"date", "what date", "today", "current date">>
      [] intent = "SYSTEM_INFO"    -> <<"system", "info", "status", "cpu", "memory", "disk">>
      [] intent = "GREETING"       -> <<"hello", "hi", "hey", "greetings">>
      [] intent = "EXIT"           -> <<"exit", "quit", "goodbye", "bye", "stop">>
      [] intent = "PLAY_YOUTUBE"   -> <<"play", "youtube", "video", "song", "music">>
      [] intent = "SEARCH_YOUTUBE" -> <<"search", "youtube", "find", "video">>
      [] OTHER                     -> << >>

\* variant: firefox is not a known app
KNOWN_APPS_mut_nofirefox == <<"chrome", "code", "terminal", "spotify",
                              "slack", "discord", "vscode", "browser">>

\* variant: zoom is a known app
KNOWN_APPS_mut_zoom == <<"firefox", "chrome", "code", "terminal", "spotify",
                         "slack", "discord", "vscode", "browser", "zoom">>

KNOWN_APPS == <<"firefox", "chrome", "code", "terminal", "spotify",
                "slack", "discord", "vscode", "browser">>

-----------------------------------------------------------------------------
(* classifier.py *)

\* the base keyword matching loop of _score_intent, over keywords[k..]
RECURSIVE KeywordScore(_, _, _)
KeywordScore(t, keywords, k) ==
    IF k > Len(keywords) THEN 0
    ELSE (IF In(keywords[k], t)
          THEN (IF In(" " \o keywords[k] \o " ", " " \o t \o " ") THEN 30 ELSE 10)
          ELSE 0)
         + KeywordScore(t, keywords, k + 1)

\* "for app in KNOWN_APPS: if app in text: ... break"
AnyKnownApp(t) == \E a \in 1..Len(KNOWN_APPS) : In(KNOWN_APPS[a], t)

FirstWordIn(words, S) == Len(words) > 0 /\ words[1] \in S

Boost(cond, amount) == IF cond THEN amount ELSE 0

\* the intent-specific weighted scoring of _score_intent
IntentBoost(t, words, intent) ==
    CASE intent = "OPEN_APP" ->
            Boost(FirstWordIn(words, {"open", "launch"}), 50)
            + Boost(AnyKnownApp(t), 30)
            + Boost(Len(words) <= 4, 20)
      [] intent = "CLOSE_APP" ->
            Boost(FirstWordIn(words, {"close", "quit", "exit", "kill"}), 40)
            + Boost(AnyKnownApp(t), 30)
            + Boost(Len(words) <= 4, 20)
      [] intent = "SEARCH_WEB" ->
            Boost(FirstWordIn(words, {"search", "google", "find"}), 40)
            + Boost(In(" for ", t), 20)
      [] intent \in {"GET_TIME", "GET_DATE"} ->
            Boost(startswith(t, "what"), 30)
            + Boost(In("is", t), 20)
      [] intent = "STOP_MUSIC" ->
            Boost(FirstWordIn(words, {"stop", "pause"}), 40)
      [] intent = "PLAY_YOUTUBE" ->
            Boost(FirstWordIn(words, {"play", "start", "put"}), 60)
            + Boost(Len(words) >= 3, 30)
            + Boost(In("by", t), 20)
      [] intent = "SYSTEM_INFO" ->
            Boost(In("system", t) \/ In("status", t), 40)
            + Boost(\E w \in {"cpu", "memory", "disk", "info"} : In(w, t), 30)
      [] intent = "GREETING" ->
            Boost(FirstWordIn(words, {"hello", "hi", "hey"}), 60)
            + Boost(Len(words) <= 3, 30)
      [] intent = "EXIT" ->
            Boost(FirstWordIn(words, {"exit", "quit", "goodbye", "bye"}), 60)
            + Boost(In("stop", t) /\ \E w \in {"listening", "assistant"} : In(w, t), 30)
      [] OTHER -> 0

\* _score_intent(text, words, intent), unclamped
_score_intent(t, words, intent) ==
    KeywordScore(t, INTENT_PATTERNS(intent), 1) + IntentBoost(t, words, intent)

\* "for trigger in triggers: query = query.replace(trigger, '')", over triggers[k..]
RECURSIVE RemoveTriggers(_, _, _)
RemoveTriggers(query, triggers, k) ==
    IF k > Len(triggers) THEN query
    ELSE RemoveTriggers(replace(query, triggers[k], ""), triggers, k + 1)

SEARCH_TRIGGERS == <<"search", "google", "look up", "find", "for">>

YOUTUBE_TRIGGERS == <<"play", "start", "put on", "search", "on youtube", "youtube",
                      "video", "please", "can you", "could you", "find", "for", "a">>

QuerySlot(t, triggers) ==
    LET query == strip(RemoveTriggers(t, triggers, 1))
    IN  IF query # "" THEN {<<"query", query>>} ELSE {}

\* _extract_slots(text, intent)
_extract_slots(t, intent) ==
    (IF intent \in {"OPEN_APP", "CLOSE_APP"} /\ AnyKnownApp(t)
     THEN {<<"app_name",
             KNOWN_APPS[CHOOSE a \in 1..Len(KNOWN_APPS) :
                           /\ In(KNOWN_APPS[a], t)
                           /\ \A b \in 1..(a - 1) : ~In(KNOWN_APPS[b], t)]>>}
     ELSE {})
    \cup (IF intent = "SEARCH_WEB" THEN QuerySlot(t, SEARCH_TRIGGERS) ELSE {})
    \cup (IF intent \in {"PLAY_YOUTUBE", "SEARCH_YOUTUBE"}
          THEN QuerySlot(t, YOUTUBE_TRIGGERS) ELSE {})

Min(a, b) == IF a <= b THEN a ELSE b

\* variant: a best score of exactly 0.4 is still below the floor
classify_mut_floor(t) ==
    LET normalized == strip(lower(t))
        words == split(normalized)
        score == [k \in 1..Len(Intent) |->
                     IF Intent[k] = "UNKNOWN" THEN 0
                     ELSE _score_intent(normalized, words, Intent[k])]
        keys == {k \in 1..Len(Intent) : score[k] > 0}
    IN  IF keys = {}
        THEN IntentResult("UNKNOWN", 0, {}, t)
        ELSE LET best == CHOOSE k \in keys :
                            /\ \A j \in keys : score[j] <= score[k]
                            /\ \A j \in keys : j < k => score[j] < score[k]
                 best_intent == Intent[best]
                 confidence == Min(score[best], 100)
             IN  IF confidence <= 40
                 THEN IntentResult("UNKNOWN", confidence, {}, t)
                 ELSE IntentResult(best_intent, confidence,
                                   _extract_slots(normalized, best_intent), t)

\* variant: of the intents that share the largest score the last one wins
classify_mut_lasttie(t) ==
    LET normalized == strip(lower(t))
        words == split(normalized)
        score == [k \in 1..Len(Intent) |->
                     IF Intent[k] = "UNKNOWN" THEN 0
                     ELSE _score_intent(normalized, words, Intent[k])]
        keys == {k \in 1..Len(Intent) : score[k] > 0}
    IN  IF keys = {}
        THEN IntentResult("UNKNOWN", 0, {}, t)
        ELSE LET best == CHOOSE k \in keys :
                            /\ \A j \in keys : score[j] <= score[k]
                            /\ \A j \in keys : j > k => score[j] < score[k]
                 best_intent == Intent[best]
                 confidence == Min(score[best], 100)
             IN  IF confidence < 40
                 THEN IntentResult("UNKNOWN", confidence, {}, t)
                 ELSE IntentResult(best_intent, confidence,
                                   _extract_slots(normalized, best_intent), t)

\* classify(text)
classify(t) ==
    LET normalized == strip(lower(t))
        words == split(normalized)
        score == [k \in 1..Len(Intent) |->
                     IF Intent[k] = "UNKNOWN" THEN 0
                     ELSE _score_intent(normalized, words, Intent[k])]
        \* scores holds the intents with score > 0, in enumeration order
        keys == {k \in 1..Len(Intent) : score[k] > 0}
    IN  IF keys = {}
        THEN IntentResult("UNKNOWN", 0, {}, t)
        ELSE LET \* max(scores, key=scores.get): the first key with the largest score
                 best == CHOOSE k \in keys :
                            /\ \A j \in keys : score[j] <= score[k]
                            /\ \A j \in keys : j < k => score[j] < score[k]
                 best_intent == Intent[best]
                 confidence == Min(score[best], 100)
             IN  IF confidence < 40
                 THEN IntentResult("UNKNOWN", confidence, {}, t)
                 ELSE IntentResult(best_intent, confidence,
                                   _extract_slots(normalized, best_intent), t)

-----------------------------------------------------------------------------
(* capability_registry.py *)

\* ALLOWED_APPS: app name -> executable
ALLOWED_APPS == {<<"firefox", "firefox">>, <<"chrome", "google-chrome">>,
                 <<"code", "code">>, <<"terminal", "gnome-terminal">>,
                 <<"vscode", "code">>, <<"browser", "firefox">>}

ALLOWED_PROCESSES == <<"firefox", "chrome", "code", "gnome-terminal">>

Capability(i, r, c, e) ==
    [intent |-> i, risk |-> r, requires_confirmation |-> c, executable |-> e]

\* variant: the two YouTube intents are registered as executable
CAPABILITIES_mut_youtube == <<
    Capability("OPEN_APP",    "low",    FALSE, TRUE),
    Capability("CLOSE_APP",   "high",   TRUE,  TRUE),
    Capability("SEARCH_WEB",  "medium", FALSE, TRUE),
    Capability("PLAY_MUSIC",  "medium", FALSE, TRUE),
    Capability("STOP_MUSIC",  "low",    FALSE, TRUE),
    Capability("GET_TIME",    "low",    FALSE, TRUE),
    Capability("GET_DATE",    "low",    FALSE, TRUE),
    Capability("SYSTEM_INFO", "medium", FALSE, TRUE),
    Capability("GREETING",    "low",    FALSE, TRUE),
    Capability("EXIT",        "low",    FALSE, TRUE),
    Capability("UNKNOWN",     "low",    FALSE, FALSE),
    Capability("PLAY_YOUTUBE",   "medium", FALSE, TRUE),
    Capability("SEARCH_YOUTUBE", "medium", FALSE, TRUE) >>

\* the items of the CAPABILITIES dict literal, in the order they are written
CAPABILITIES == <<
    Capability("OPEN_APP",    "low",    FALSE, TRUE),
    Capability("CLOSE_APP",   "high",   TRUE,  TRUE),
    Capability("SEARCH_WEB",  "medium", FALSE, TRUE),
    Capability("PLAY_MUSIC",  "medium", FALSE, TRUE),
    Capability("STOP_MUSIC",  "low",    FALSE, TRUE),
    Capability("GET_TIME",    "low",    FALSE, TRUE),
    Capability("GET_DATE",    "low",    FALSE, TRUE),
    Capability("SYSTEM_INFO", "medium", FALSE, TRUE),
    Capability("GREETING",    "low",    FALSE, TRUE),
    Capability("EXIT",        "low",    FALSE, TRUE),
    Capability("UNKNOWN",     "low",    FALSE, FALSE) >>

\* "intent in CAPABILITIES"
InRegistry(intent) == \E k \in 1..Len(CAPABILITIES) : CAPABILITIES[k].intent = intent

\* CAPABILITIES[intent]: of a dict literal's items with the same key the last one stays
get_capability(intent) ==
    CAPABILITIES[CHOOSE k \in 1..Len(CAPABILITIES) :
                    /\ CAPABILITIES[k].intent = intent
                    /\ \A j \in (k + 1)..Len(CAPABILITIES) : CAPABILITIES[j].intent # intent]

\* variant: an entry is enough, its executable flag is not read
validate_capability_mut_entry(intent) == InRegistry(intent)

validate_capability(intent) ==
    IF ~InRegistry(intent) THEN FALSE ELSE get_capability(intent).executable

requires_confirmation(intent) ==
    IF ~InRegistry(intent) THEN FALSE ELSE get_capability(intent).requires_confirmation

-----------------------------------------------------------------------------
(* policy.py *)

\* slots.get(key, default)
Get(slots, key, default) == IF HasKey(slots, key) THEN Lookup(slots, key) ELSE default

get_action_description(ir) ==
    CASE ir.intent = "OPEN_APP"       -> "open " \o Get(ir.slots, "app_name", "an application")
      [] ir.intent = "CLOSE_APP"      -> "close " \o Get(ir.slots, "app_name", "an application")
      [] ir.intent = "SEARCH_WEB"     -> "search for " \o Get(ir.slots, "query", "something")
      [] ir.intent = "STOP_MUSIC"     -> "stop music"
      [] ir.intent = "GET_TIME"       -> "tell you the time"
      [] ir.intent = "GET_DATE"       -> "tell you the date"
      [] ir.intent = "SYSTEM_INFO"    -> "show system information"
      [] ir.intent = "GREETING"       -> "greet you"
      [] ir.intent = "EXIT"           -> "exit"
      [] ir.intent = "PLAY_YOUTUBE"   -> "play " \o Get(ir.slots, "query", "a video") \o " on YouTube"
      [] ir.intent = "SEARCH_YOUTUBE" -> "search YouTube for " \o Get(ir.slots, "query", "something")
      [] OTHER                        -> "do something"

\* variant: both thresholds taken on the wrong side (<= for <)
decide_action_mut_bounds(ir) ==
    IF ir.intent = "UNKNOWN"
    THEN <<"I did not understand that. Could you repeat?", FALSE>>
    ELSE IF ir.confidence <= 60
    THEN <<"I'm not sure what you said. Please repeat.", FALSE>>
    ELSE IF ir.confidence <= 75
    THEN <<"Did you want me to " \o get_action_description(ir) \o "?", FALSE>>
    ELSE <<"Intent detected: " \o ir.intent, TRUE>>

\* variant: an intent registered with requires_confirmation is never executed at once
decide_action_mut_confirm(ir) ==
    IF ir.intent = "UNKNOWN"
    THEN <<"I did not understand that. Could you repeat?", FALSE>>
    ELSE IF ir.confidence < 60
    THEN <<"I'm not sure what you said. Please repeat.", FALSE>>
    ELSE IF ir.confidence < 75 \/ requires_confirmation(ir.intent)
    THEN <<"Did you want me to " \o get_action_description(ir) \o "?", FALSE>>
    ELSE <<"Intent detected: " \o ir.intent, TRUE>>

\* decide_action(intent_result) -> <<response_text, should_execute>>
decide_action(ir) ==
    IF ir.intent = "UNKNOWN"
    THEN <<"I did not understand that. Could you repeat?", FALSE>>
    ELSE IF ir.confidence < 60
    THEN <<"I'm not sure what you said. Please repeat.", FALSE>>
    ELSE IF ir.confidence < 75
    THEN <<"Did you want me to " \o get_action_description(ir) \o "?", FALSE>>
    ELSE <<"Intent detected: " \o ir.intent, TRUE>>

-----------------------------------------------------------------------------
(* semantic_engine.py *)

\* the keys of CANONICAL_PHRASES: the intents semantic_match can return
CANONICAL_INTENTS == {"OPEN_APP", "CLOSE_APP", "SEARCH_WEB", "STOP_MUSIC", "GET_TIME",
                      "GET_DATE", "SYSTEM_INFO", "GREETING", "EXIT", "PLAY_YOUTUBE",
                      "SEARCH_YOUTUBE"}

\* SemanticEngine(): the n-th instance built in the process; __init__ loads the model and
\* _precompute_embeddings stores one mean embedding per key of CANONICAL_PHRASES
SemanticEngine(n) == [instance |-> n, intent_embeddings |-> CANONICAL_INTENTS]

\* variant: the first-use check always finds no engine
EngineMissing_mut_always(engine) == TRUE

\* get_semantic_engine: "if _semantic_engine is None"
EngineMissing(engine) == engine = None

\* _cosine_similarity returns (cos + 1) / 2, a value in [0, 1]; the values tried
Similarities == {0, 79, 80, 82, 83, 100}

\* what semantic_match(text) can return: the embedding model is not part of the program
SemanticOutcomes == CANONICAL_INTENTS \X Similarities

-----------------------------------------------------------------------------
(* hybrid_classifier.py *)

\* the result_data dict returned by classify_hybrid
ResultData(rr, si, ss, ds, ir) ==
    [rule_intent |-> rr.intent, rule_confidence |-> rr.confidence,
     semantic_intent |-> si, semantic_similarity |-> ss,
     decision_source |-> ds, intent_result |-> ir]

\* variant: the rule result is accepted only above 0.8
RuleAccepts_mut_strict(rr) == rr.confidence > 80

\* variant: the rule result is accepted from 0.6
RuleAccepts_mut_low(rr) == rr.confidence >= 60

\* Step 2: "if rule_result.confidence >= 0.75"
RuleAccepts(rr) == rr.confidence >= 75

\* Step 2, taken: the rule result is returned as it is
RuleDecision(rr) == ResultData(rr, None, None, "rule", rr)

\* Step 4: "if semantic_similarity >= 0.83"
SemanticAccepts(similarity) == similarity >= 83

\* variant: the semantic result carries no slots
SemanticResult_mut_noslots(rr, sem, t) == IntentResult(sem[1], sem[2], {}, t)

\* Step 4, taken: the semantic intent with the similarity as confidence and the rule's slots
SemanticResult(rr, sem, t) == IntentResult(sem[1], sem[2], rr.slots, t)

\* variant: the low-confidence rule result is passed on
UnknownResult_mut_rule(rr, t) == rr

\* Step 5: both low
UnknownResult(rr, t) == IntentResult("UNKNOWN", 0, {}, t)

\* Steps 3 to 5, with sem the pair semantic_match(text) returned
SemanticDecision(rr, sem, t) ==
    IF SemanticAccepts(sem[2])
    THEN ResultData(rr, Some(sem[1]), Some(sem[2]), "semantic", SemanticResult(rr, sem, t))
    ELSE ResultData(rr, Some(sem[1]), Some(sem[2]), "none", UnknownResult(rr, t))

\* classify_hybrid(text): sets rule_result, hybrid_result, and what the call did to the
\* semantic engine (get_semantic_engine loads it on the first semantic_match)
classify_hybrid(t) ==
    \E rr \in {classify(t)} :
        /\ rule_result' = Some(rr)
        /\ IF RuleAccepts(rr)
           THEN /\ hybrid_result' = Some(RuleDecision(rr))
                /\ semantic_calls' = 0
                /\ UNCHANGED <<semantic_engine, constructed>>
           ELSE \E sem \in SemanticOutcomes :
                /\ hybrid_result' = Some(SemanticDecision(rr, sem, t))
                /\ semantic_calls' = 1
                /\ IF EngineMissing(semantic_engine)
                   THEN /\ semantic_engine' = Some(SemanticEngine(constructed + 1))
                        /\ constructed' = constructed + 1
                   ELSE UNCHANGED <<semantic_engine, constructed>>

-----------------------------------------------------------------------------
(* execution_controller.py *)

\* ExecutionResult(success, message, intent, details); the timestamp is left out
ExecutionResult(ok, msg, i, d) == [success |-> ok, message |-> msg, intent |-> i, details |-> d]

\* What starting an external command can do.  "ok": it starts and exits with status 0;
\* "nonzero": it starts and exits with another status; "TimeoutExpired": it starts and
\* outlives the timeout of subprocess.run; "FileNotFoundError", "OSError": it cannot be
\* started.  subprocess.Popen does not wait, so it sees only whether the command starts.
Outcomes == {"ok", "nonzero", "TimeoutExpired", "FileNotFoundError", "OSError"}

CannotStart(o) == o \in {"FileNotFoundError", "OSError"}

\* the processes that exist after trying to start argv with outcome o
Spawn(argv, o) == IF CannotStart(o) THEN << >> ELSE <<argv>>

\* how a handler ends: it returns an ExecutionResult or an exception leaves it
Return(h, res, procs) ==
    [handler |-> h, raised |-> "", result |-> Some(res), started |-> procs, ran |-> << >>]
Raise(h, e, procs) ==
    [handler |-> h, raised |-> e, result |-> None, started |-> procs, ran |-> << >>]

\* subprocess.run(argv, timeout=timeout, ...): the caller waits for the command
Run(argv, timeout, o) ==
    <<[argv |-> argv, blocking |-> TRUE, timeout |-> timeout, outcome |-> o]>>

\* subprocess.Popen(argv, ...): the caller does not wait, there is no timeout
Popen(argv, o) ==
    <<[argv |-> argv, blocking |-> FALSE, timeout |-> 0, outcome |-> o]>>

\* the end of a handler together with the subprocess calls it made on the way
With(r, calls) == [r EXCEPT !.ran = calls]

\* datetime.now().strftime(...) and the output of hostname: one value each
TIME_STR == "09:41 AM"
DATE_STR == "Wednesday, November 04, 2026"
HOSTNAME == "host"

\* variant: a name outside ALLOWED_APPS is used as the executable, as _execute_close_app does
_execute_open_app_mut_noallowlist(slots, o) ==
    LET app_name == Get(slots, "app_name", "")
        executable == Get(ALLOWED_APPS, app_name, app_name)
    IN  IF ~HasKey(slots, "app_name") \/ app_name = ""
        THEN Return("_execute_open_app",
                    ExecutionResult(FALSE, "No app name specified", "OPEN_APP", {}), << >>)
        ELSE IF o = "FileNotFoundError"
        THEN Return("_execute_open_app",
                    ExecutionResult(FALSE, "App '" \o app_name \o "' not found on system",
                                    "OPEN_APP", {}), << >>)
        ELSE IF CannotStart(o)
        THEN Raise("_execute_open_app", o, << >>)
        ELSE Return("_execute_open_app",
                    ExecutionResult(TRUE, "Opened " \o app_name, "OPEN_APP",
                                    {<<"app", app_name>>, <<"executable", executable>>}),
                    Spawn(<<executable>>, o))

_execute_open_app(slots, o) ==
    LET app_name == Get(slots, "app_name", "")
    IN  IF ~HasKey(slots, "app_name") \/ app_name = ""
        THEN Return("_execute_open_app",
                    ExecutionResult(FALSE, "No app name specified", "OPEN_APP", {}), << >>)
        ELSE IF ~HasKey(ALLOWED_APPS, app_name)
        THEN Return("_execute_open_app",
                    ExecutionResult(FALSE, "App '" \o app_name \o "' not in allowed list",
                                    "OPEN_APP", {}), << >>)
        ELSE LET executable == Lookup(ALLOWED_APPS, app_name)
             IN  With(IF o = "FileNotFoundError"
                      THEN Return("_execute_open_app",
                                  ExecutionResult(FALSE, "App '" \o app_name \o "' not found on system",
                                                  "OPEN_APP", {}), << >>)
                      ELSE IF CannotStart(o)
                      THEN Raise("_execute_open_app", o, << >>)
                      ELSE Return("_execute_open_app",
                                  ExecutionResult(TRUE, "Opened " \o app_name, "OPEN_APP",
                                                  {<<"app", app_name>>, <<"executable", executable>>}),
                                  Spawn(<<executable>>, o)),
                      Popen(<<executable>>, o))

\* variant: the handler has no "except subprocess.TimeoutExpired"
_execute_close_app_mut_timeout(slots, o) ==
    LET app_name == Get(slots, "app_name", "")
        process_name == Get(ALLOWED_APPS, app_name, app_name)
        argv == <<"pkill", "-f", process_name>>
    IN  IF ~HasKey(slots, "app_name") \/ app_name = ""
        THEN Return("_execute_close_app",
                    ExecutionResult(FALSE, "No app name specified", "CLOSE_APP", {}), << >>)
        ELSE With(IF o = "TimeoutExpired" \/ CannotStart(o)
                  THEN Raise("_execute_close_app", o, Spawn(argv, o))
                  ELSE Return("_execute_close_app",
                              ExecutionResult(TRUE, "Closed " \o app_name, "CLOSE_APP",
                                              {<<"app", app_name>>, <<"process", process_name>>}),
                              Spawn(argv, o)),
                  Run(argv, 5, o))

_execute_close_app(slots, o) ==
    LET app_name == Get(slots, "app_name", "")
        process_name == Get(ALLOWED_APPS, app_name, app_name)
        argv == <<"pkill", "-f", process_name>>
    IN  IF ~HasKey(slots, "app_name") \/ app_name = ""
        THEN Return("_execute_close_app",
                    ExecutionResult(FALSE, "No app name specified", "CLOSE_APP", {}), << >>)
        ELSE With(IF o = "TimeoutExpired"
                  THEN Return("_execute_close_app",
                              ExecutionResult(FALSE, "Close operation timed out", "CLOSE_APP", {}),
                              Spawn(argv, o))
                  ELSE IF CannotStart(o)
                  THEN Raise("_execute_close_app", o, << >>)
                  ELSE Return("_execute_close_app",
                              ExecutionResult(TRUE, "Closed " \o app_name, "CLOSE_APP",
                                              {<<"app", app_name>>, <<"process", process_name>>}),
                              Spawn(argv, o)),
                  Run(argv, 5, o))

_execute_search_web(slots, o) ==
    LET query == Get(slots, "query", "")
        search_url == "https://www.google.com/search?q=" \o replace(query, " ", "+")
    IN  With(IF CannotStart(o)
             THEN Return("_execute_search_web",
                         ExecutionResult(FALSE, "Search failed: " \o o, "SEARCH_WEB", {}), << >>)
             ELSE Return("_execute_search_web",
                         ExecutionResult(TRUE, "Searching for: " \o query, "SEARCH_WEB",
                                         {<<"query", query>>}),
                         Spawn(<<"xdg-open", search_url>>, o)),
             Popen(<<"xdg-open", search_url>>, o))

\* subprocess.run(["playerctl", verb], timeout=5, check=True) inside "except Exception"
Playerctl(h, verb, okmsg, intent, o) ==
    With(IF o = "ok"
         THEN Return(h, ExecutionResult(TRUE, okmsg, intent, {}), Spawn(<<"playerctl", verb>>, o))
         ELSE Return(h, ExecutionResult(FALSE, "No media player found", intent, {}),
                     Spawn(<<"playerctl", verb>>, o)),
         Run(<<"playerctl", verb>>, 5, o))

_execute_play_music(slots, o) == Playerctl("_execute_play_music", "play", "Playing music", "PLAY_MUSIC", o)

_execute_stop_music(slots, o) == Playerctl("_execute_stop_music", "pause", "Stopped music", "STOP_MUSIC", o)

_execute_get_time ==
    Return("_execute_get_time",
           ExecutionResult(TRUE, "The time is " \o TIME_STR, "GET_TIME", {<<"time", TIME_STR>>}), << >>)

_execute_get_date ==
    Return("_execute_get_date",
           ExecutionResult(TRUE, "Today is " \o DATE_STR, "GET_DATE", {<<"date", DATE_STR>>}), << >>)

_execute_system_info(o) ==
    With(IF o \in {"ok", "nonzero"}
         THEN Return("_execute_system_info",
                     ExecutionResult(TRUE, "System: " \o HOSTNAME, "SYSTEM_INFO",
                                     {<<"hostname", HOSTNAME>>}),
                     Spawn(<<"hostname">>, o))
         ELSE Return("_execute_system_info",
                     ExecutionResult(FALSE, "Could not get system info", "SYSTEM_INFO", {}),
                     Spawn(<<"hostname">>, o)),
         Run(<<"hostname">>, 2, o))

\* variant: the greeting handler answers with the exit handler's message
_execute_greeting_mut_goodbye ==
    Return("_execute_greeting", ExecutionResult(TRUE, "Goodbye!", "GREETING", {}), << >>)

_execute_greeting ==
    Return("_execute_greeting",
           ExecutionResult(TRUE, "Hello! How can I help you?", "GREETING", {}), << >>)

_execute_exit ==
    Return("_execute_exit", ExecutionResult(TRUE, "Goodbye!", "EXIT", {}), << >>)

\* the common body of _execute_play_youtube and _execute_search_youtube: brave-browser
\* first (outcome o1), xdg-open when brave-browser is not found (outcome o2)
YouTube(h, intent, nomsg, okmsg, slots, o1, o2) ==
    LET query == Get(slots, "query", "")
        youtube_url == "https://www.youtube.com/results?search_query=" \o replace(query, " ", "+")
        ok == ExecutionResult(TRUE, okmsg \o query \o (IF intent = "PLAY_YOUTUBE" THEN " on YouTube" ELSE ""),
                              intent, {<<"query", query>>, <<"url", youtube_url>>})
        brave == Popen(<<"brave-browser", "--new-window", youtube_url>>, o1)
        xdg == Popen(<<"xdg-open", youtube_url>>, o2)
    IN  IF ~HasKey(slots, "query") \/ query = ""
        THEN Return(h, ExecutionResult(FALSE, nomsg, intent, {}), << >>)
        ELSE IF o1 = "FileNotFoundError"
        THEN With(IF CannotStart(o2)
                  THEN Return(h, ExecutionResult(FALSE, "Could not open browser", intent, {}), << >>)
                  ELSE Return(h, ok, Spawn(<<"xdg-open", youtube_url>>, o2)),
                  brave \o xdg)
        ELSE With(IF CannotStart(o1)
                  THEN Raise(h, o1, << >>)
                  ELSE Return(h, ok, Spawn(<<"brave-browser", "--new-window", youtube_url>>, o1)),
                  brave)

_execute_play_youtube(slots, o1, o2) ==
    YouTube("_execute_play_youtube", "PLAY_YOUTUBE", "No video query specified",
            "Playing ", slots, o1, o2)

_execute_search_youtube(slots, o1, o2) ==
    YouTube("_execute_search_youtube", "SEARCH_YOUTUBE", "No search query specified",
            "Searching YouTube for ", slots, o1, o2)

\* the if/elif chain of execute_intent
Dispatch(intent, slots, o1, o2) ==
    CASE intent = "OPEN_APP"       -> _execute_open_app(slots, o1)
      [] intent = "CLOSE_APP"      -> _execute_close_app(slots, o1)
      [] intent = "SEARCH_WEB"     -> _execute_search_web(slots, o1)
      [] intent = "PLAY_MUSIC"     -> _execute_play_music(slots, o1)
      [] intent = "STOP_MUSIC"     -> _execute_stop_music(slots, o1)
      [] intent = "GET_TIME"       -> _execute_get_time
      [] intent = "GET_DATE"       -> _execute_get_date
      [] intent = "SYSTEM_INFO"    -> _execute_system_info(o1)
      [] intent = "GREETING"       -> _execute_greeting
      [] intent = "EXIT"           -> _execute_exit
      [] intent = "PLAY_YOUTUBE"   -> _execute_play_youtube(slots, o1, o2)
      [] intent = "SEARCH_YOUTUBE" -> _execute_search_youtube(slots, o1, o2)
      [] OTHER -> Return("none", ExecutionResult(FALSE, "No handler for intent: " \o intent,
                                                 intent, {}), << >>)

\* variant: dispatch without asking the registry
execute_intent_mut_novalidate(ir, o1, o2) ==
    LET h == Dispatch(ir.intent, ir.slots, o1, o2)
    IN  IF h.raised # ""
        THEN With(Return(h.handler, ExecutionResult(FALSE, "Execution error: " \o h.raised,
                                                    ir.intent, {}), h.started), h.ran)
        ELSE h

\* variant: no try/except around the dispatch, a handler's exception leaves execute_intent
execute_intent_mut_nocatch(ir, o1, o2) ==
    IF ~validate_capability(ir.intent)
    THEN Return("none", ExecutionResult(FALSE, "Intent " \o ir.intent \o " cannot be executed",
                                        ir.intent, {}), << >>)
    ELSE Dispatch(ir.intent, ir.slots, o1, o2)

\* execute_intent(intent_result), with the outcomes of the commands it tries to start:
\* [handler, raised, result, started, ran]; raised is "" because "except Exception" catches
execute_intent(ir, o1, o2) ==
    IF ~validate_capability(ir.intent)
    THEN Return("none", ExecutionResult(FALSE, "Intent " \o ir.intent \o " cannot be executed",
                                        ir.intent, {}), << >>)
    ELSE LET h == Dispatch(ir.intent, ir.slots, o1, o2)
         IN  IF h.raised # ""
             THEN With(Return(h.handler, ExecutionResult(FALSE, "Execution error: " \o h.raised,
                                                         ir.intent, {}), h.started), h.ran)
             ELSE h

-----------------------------------------------------------------------------
(* greeting.py *)

\* os.getenv("ASSISTANT_NAME", "Assistant") with the variable unset
ASSISTANT_NAME == "Assistant"

get_shutdown_message(assistant_name) == "Goodbye. " \o assistant_name \o " shutting down."

-----------------------------------------------------------------------------
(* The inputs *)

\* the pieces utterances are made of
Fragments == {"open", "Open", "close", "firefox", "spotify", "zoom", "hello", "exit",
              "play despacito", "search", "cats", "stop", "do the thing"}

\* an utterance is at most MaxFragments pieces, separated by single spaces
MaxFragments == 2

RECURSIVE Utterances(_)
Utterances(n) ==
    IF n = 0 THEN {""}
    ELSE LET U == Utterances(n - 1)
         IN  U \cup {IF u = "" THEN f ELSE u \o " " \o f : u \in U, f \in Fragments}

\* what stt.transcribe can return
Transcripts == Utterances(MaxFragments)

\* the confidences a caller of decide_action or execute_intent may pass
Confidences == {0, 1, 39, 40, 59, 60, 61, 74, 75, 76, 99, 100}

\* the slot mappings a caller of decide_action or execute_intent may pass
SlotMaps ==
    {a \cup q : a \in {{}} \cup {{<<"app_name", n>>} : n \in {"", "firefox", "chrome", "spotify", "zoom"}},
                q \in {{}} \cup {{<<"query", v>>} : v \in {"", "cats", "lo fi"}}}

AnyIntentResult == {IntentResult(i, c, sl, "") : i \in Intents, c \in Confidences, sl \in SlotMaps}

-----------------------------------------------------------------------------
(* main.py: the loop *)

\* the callers of semantic_match
MaxCallers == 2
Callers == 1..MaxCallers

\* a caller that is not inside get_semantic_engine and has made n calls
Outside(n) == [at |-> "outside", engine |-> None, calls |-> n]

\* a process that has just started: no temporary file, no engine, no caller inside
ProcessStart ==
    /\ temp_files = {}
    /\ exit_status = None
    /\ constructed = 0
    /\ threads = [c \in Callers |-> Outside(0)]
    /\ serialized = TRUE

\* the temporary files of a turn: input_path and output_path (lines 99-103)
TEMP_FILES == {"input_path", "output_path"}

\* the locals of one iteration before anything is assigned
FreshTurn ==
    /\ rule_result = None
    /\ hybrid_result = None
    /\ semantic_calls = 0
    /\ intent_result = None
    /\ response_text = ""
    /\ should_execute = FALSE
    /\ execution_message = ""
    /\ exec_result = None
    /\ handler = "none"
    /\ started = << >>
    /\ ran = << >>
    /\ spoken = None

Init ==
    /\ ProcessStart
    /\ pc = "record"
    /\ assistant_running = TRUE
    /\ text = ""
    /\ semantic_engine = None
    /\ FreshTurn

\* variant: any successful execution clears the lifecycle flag
StopsLoop_mut_any(ir) == TRUE

\* line 160: "if intent_result.intent == Intent.EXIT"
StopsLoop(ir) == ir.intent = "EXIT"

\* lines 97-111: a new iteration records and transcribes
Transcribe ==
    /\ pc = "record"
    /\ assistant_running
    /\ \E t \in Transcripts : text' = t
    /\ pc' = "classify"
    /\ UNCHANGED <<assistant_running, rule_result, hybrid_result, semantic_calls,
                   semantic_engine, intent_result, response_text, should_execute,
                   execution_message, exec_result, handler, started, ran, spoken>>
    /\ temp_files' = TEMP_FILES
    /\ UNCHANGED <<exit_status, constructed, threads, serialized>>

\* lines 118-119
Classify ==
    /\ pc = "classify"
    /\ classify_hybrid(text)
    /\ intent_result' = Some(hybrid_result'[1].intent_result)
    /\ pc' = "decide"
    /\ UNCHANGED <<assistant_running, text, response_text, should_execute,
                   execution_message, exec_result, handler, started, ran, spoken>>
    /\ UNCHANGED <<temp_files, exit_status, threads, serialized>>

\* line 130
Decide ==
    /\ pc = "decide"
    /\ response_text' = decide_action(intent_result[1])[1]
    /\ should_execute' = decide_action(intent_result[1])[2]
    /\ pc' = "execute"
    /\ UNCHANGED <<assistant_running, text, rule_result, hybrid_result, semantic_calls,
                   semantic_engine, intent_result, execution_message, exec_result,
                   handler, started, ran, spoken>>
    /\ UNCHANGED <<temp_files, exit_status, constructed, threads, serialized>>

\* variant: a registry denial leaves the policy's response as the message
Execute_mut_denial ==
    /\ pc = "execute"
    /\ IF ~should_execute
       THEN /\ execution_message' = response_text
            /\ pc' = "speak"
            /\ UNCHANGED <<assistant_running, exec_result, handler, started, ran,
                           temp_files, exit_status>>
       ELSE IF ~validate_capability(intent_result[1].intent)
       THEN /\ execution_message' = response_text
            /\ pc' = "speak"
            /\ UNCHANGED <<assistant_running, exec_result, handler, started, ran,
                           temp_files, exit_status>>
       ELSE \E o1 \in Outcomes, o2 \in Outcomes :
            LET r == execute_intent(intent_result[1], o1, o2)
            IN  /\ exec_result' = r.result
                /\ handler' = r.handler
                /\ started' = r.started
                /\ ran' = r.ran
                /\ IF r.raised # ""
                   THEN \* an exception out of execute_intent leaves the loop: lines 218-221
                        /\ pc' = "crashed"
                        /\ execution_message' = response_text
                        /\ temp_files' = {}
                        /\ exit_status' = Some(1)
                        /\ UNCHANGED assistant_running
                   ELSE /\ pc' = "speak"
                        /\ UNCHANGED <<temp_files, exit_status>>
                        /\ IF r.result[1].success
                           THEN IF StopsLoop(intent_result[1])
                                THEN /\ assistant_running' = FALSE
                                     /\ execution_message' = get_shutdown_message(ASSISTANT_NAME)
                                ELSE /\ execution_message' = r.result[1].message
                                     /\ UNCHANGED assistant_running
                           ELSE /\ execution_message' = "I could not complete that action."
                                /\ UNCHANGED assistant_running
    /\ UNCHANGED <<text, rule_result, hybrid_result, semantic_calls, semantic_engine,
                   intent_result, response_text, should_execute, spoken>>
    /\ UNCHANGED <<constructed, threads, serialized>>

\* lines 140-176: the security boundary
Execute ==
    /\ pc = "execute"
    /\ IF ~should_execute
       THEN /\ execution_message' = response_text
            /\ pc' = "speak"
            /\ UNCHANGED <<assistant_running, exec_result, handler, started, ran,
                           temp_files, exit_status>>
       ELSE IF ~validate_capability(intent_result[1].intent)
       THEN /\ execution_message' = "I cannot execute that action."
            /\ pc' = "speak"
            /\ UNCHANGED <<assistant_running, exec_result, handler, started, ran,
                           temp_files, exit_status>>
       ELSE \E o1 \in Outcomes, o2 \in Outcomes :
            LET r == execute_intent(intent_result[1], o1, o2)
            IN  /\ exec_result' = r.result
                /\ handler' = r.handler
                /\ started' = r.started
                /\ ran' = r.ran
                /\ IF r.raised # ""
                   THEN \* an exception out of execute_intent leaves the loop: lines 218-221
                        /\ pc' = "crashed"
                        /\ execution_message' = response_text
                        /\ temp_files' = {}
                        /\ exit_status' = Some(1)
                        /\ UNCHANGED assistant_running
                   ELSE /\ pc' = "speak"
                        /\ UNCHANGED <<temp_files, exit_status>>
                        /\ IF r.result[1].success
                           THEN IF StopsLoop(intent_result[1])
                                THEN /\ assistant_running' = FALSE
                                     /\ execution_message' = get_shutdown_message(ASSISTANT_NAME)
                                ELSE /\ execution_message' = r.result[1].message
                                     /\ UNCHANGED assistant_running
                           ELSE /\ execution_message' = "I could not complete that action."
                                /\ UNCHANGED assistant_running
    /\ UNCHANGED <<text, rule_result, hybrid_result, semantic_calls, semantic_engine,
                   intent_result, response_text, should_execute, spoken>>
    /\ UNCHANGED <<constructed, threads, serialized>>

\* tts.synthesize and tts.play_audio raise RuntimeError when piper or aplay fails or
\* times out
SpeechOutcomes == {"ok", "synthesize RuntimeError", "play_audio RuntimeError"}

\* lines 181-183; a RuntimeError out of them leaves the loop: lines 218-221
Speak ==
    /\ pc = "speak"
    /\ \E o \in SpeechOutcomes :
          IF o = "ok"
          THEN /\ spoken' = Some(execution_message)
               /\ pc' = "finally"
               /\ UNCHANGED <<temp_files, exit_status>>
          ELSE \* the finally block deletes the files, then sys.exit(1)
               /\ UNCHANGED spoken
               /\ pc' = "crashed"
               /\ temp_files' = {}
               /\ exit_status' = Some(1)
    /\ UNCHANGED <<assistant_running, text, rule_result, hybrid_result, semantic_calls,
                   semantic_engine, intent_result, response_text, should_execute,
                   execution_message, exec_result, handler, started, ran>>
    /\ UNCHANGED <<constructed, threads, serialized>>

\* lines 191-196 and the loop test of line 97: the iteration ends; when the loop goes
\* on, the next iteration starts with its locals unassigned
EndTurn ==
    /\ pc = "finally"
    /\ IF assistant_running
       THEN /\ pc' = "record"
            /\ text' = ""
            /\ rule_result' = None
            /\ hybrid_result' = None
            /\ semantic_calls' = 0
            /\ intent_result' = None
            /\ response_text' = ""
            /\ should_execute' = FALSE
            /\ execution_message' = ""
            /\ exec_result' = None
            /\ handler' = "none"
            /\ started' = << >>
            /\ ran' = << >>
            /\ spoken' = None
       ELSE /\ pc' = "terminated"
            /\ UNCHANGED <<text, rule_result, hybrid_result, semantic_calls, intent_result,
                           response_text, should_execute, execution_message, exec_result,
                           handler, started, ran, spoken>>
    /\ UNCHANGED <<assistant_running, semantic_engine>>
    /\ temp_files' = {}
    /\ exit_status' = IF assistant_running THEN None ELSE Some(0)
    /\ UNCHANGED <<constructed, threads, serialized>>

Next == Transcribe \/ Classify \/ Decide \/ Execute \/ Speak \/ EndTurn

Spec == Init /\ [][Next]_vars

-----------------------------------------------------------------------------
(* Direct calls of decide_action and execute_intent, with any IntentResult *)

InitCall ==
    /\ ProcessStart
    /\ pc = "call"
    /\ assistant_running = TRUE
    /\ text = ""
    /\ semantic_engine = None
    /\ rule_result = None
    /\ hybrid_result = None
    /\ semantic_calls = 0
    /\ intent_result \in {Some(ir) : ir \in AnyIntentResult}
    /\ response_text = ""
    /\ should_execute = FALSE
    /\ execution_message = ""
    /\ exec_result = None
    /\ handler = "none"
    /\ started = << >>
    /\ ran = << >>
    /\ spoken = None

CallDecideAction ==
    /\ pc = "call"
    /\ response_text' = decide_action(intent_result[1])[1]
    /\ should_execute' = decide_action(intent_result[1])[2]
    /\ pc' = "decide_action returned"
    /\ UNCHANGED <<assistant_running, text, rule_result, hybrid_result, semantic_calls,
                   semantic_engine, intent_result, execution_message, exec_result,
                   handler, started, ran, spoken>>
    /\ UNCHANGED <<temp_files, exit_status, constructed, threads, serialized>>

CallExecuteIntent ==
    /\ pc = "call"
    /\ \E o1 \in Outcomes, o2 \in Outcomes :
          LET r == execute_intent(intent_result[1], o1, o2)
          IN  /\ exec_result' = r.result
              /\ handler' = r.handler
              /\ started' = r.started
              /\ ran' = r.ran
              /\ pc' = IF r.raised # "" THEN "execute_intent raised" ELSE "execute_intent returned"
    /\ UNCHANGED <<assistant_running, text, rule_result, hybrid_result, semantic_calls,
                   semantic_engine, intent_result, response_text, should_execute,
                   execution_message, spoken>>
    /\ UNCHANGED <<temp_files, exit_status, constructed, threads, serialized>>

NextCall == CallDecideAction \/ CallExecuteIntent

SpecCall == InitCall /\ [][NextCall]_vars

-----------------------------------------------------------------------------
(* Direct calls of classify, with any transcript *)

InitClassify ==
    /\ ProcessStart
    /\ pc = "call"
    /\ assistant_running = TRUE
    /\ text \in Transcripts
    /\ semantic_engine = None
    /\ FreshTurn

\* classify(text), called for the first time or once more with the same text
CallClassify ==
    /\ pc \in {"call", "classify returned"}
    /\ rule_result' = Some(classify(text))
    /\ pc' = "classify returned"
    /\ UNCHANGED <<assistant_running, text, hybrid_result, semantic_calls, semantic_engine,
                   intent_result, response_text, should_execute, execution_message,
                   exec_result, handler, started, ran, spoken>>
    /\ UNCHANGED <<temp_files, exit_status, constructed, threads, serialized>>

NextClassify == CallClassify

SpecClassify == InitClassify /\ [][NextClassify]_vars

-----------------------------------------------------------------------------
(* main.py: the loop with the exceptions and keyboard interrupts that can end a turn *)

\* what a turn has computed; an ended turn computes nothing more
TurnLocals == <<text, rule_result, hybrid_result, semantic_calls, semantic_engine,
                intent_result, response_text, should_execute, execution_message,
                exec_result, handler, started, ran>>

\* the stages inside the try of line 105, by the position of the loop
StagesInTry == {"record", "classify", "decide", "execute", "speak", "finally"}

\* recorder.record_audio / save_wav, stt.transcribe (RuntimeError) or classify_hybrid
\* (the embedding model cannot be loaded) raises: the finally block of lines 191-196
\* deletes both files and "except Exception" of lines 218-221 ends with sys.exit(1)
StageRaises ==
    /\ pc \in {"record", "classify"}
    /\ assistant_running
    /\ pc' = "crashed"
    /\ temp_files' = {}
    /\ exit_status' = Some(1)
    /\ UNCHANGED <<assistant_running, spoken, constructed, threads, serialized>>
    /\ UNCHANGED TurnLocals

\* KeyboardInterrupt raised inside the try of line 105, in a stage or before the finally
\* block is entered: the finally block deletes both files, then "except
\* KeyboardInterrupt" of line 200 takes over
KeyboardInterruptInTry ==
    /\ pc \in StagesInTry
    /\ assistant_running \/ pc # "record"
    /\ pc' = "interrupted"
    /\ temp_files' = {}
    /\ UNCHANGED <<assistant_running, spoken, exit_status, constructed, threads, serialized>>
    /\ UNCHANGED TurnLocals

\* KeyboardInterrupt raised at the top of an iteration, in lines 97-104: none, the first
\* or both of the files of the iteration exist and the try of line 105, with its
\* finally block, has not been entered
KeyboardInterruptBeforeTry ==
    /\ pc = "record"
    /\ assistant_running
    /\ pc' = "interrupted"
    /\ \E created \in {{}, {"input_path"}, TEMP_FILES} : temp_files' = created
    /\ UNCHANGED <<assistant_running, spoken, exit_status, constructed, threads, serialized>>
    /\ UNCHANGED TurnLocals

\* KeyboardInterrupt raised inside the finally block of lines 191-196, before the first
\* unlink or between the two: the block is left and what it had not yet deleted stays
KeyboardInterruptInFinally ==
    /\ pc = "finally"
    /\ pc' = "interrupted"
    /\ \E left \in {TEMP_FILES, {"output_path"}} : temp_files' = left
    /\ UNCHANGED <<assistant_running, spoken, exit_status, constructed, threads, serialized>>
    /\ UNCHANGED TurnLocals

get_interrupt_message == "Interrupted. Shutting down."

\* lines 200-217 and 222-226: the interrupt message is spoken with a file of its own,
\* a failure of the speech output is swallowed, and main returns
HandleInterrupt ==
    /\ pc = "interrupted"
    /\ \E o \in SpeechOutcomes :
          spoken' = IF o = "ok" THEN Some(get_interrupt_message) ELSE spoken
    /\ pc' = "interrupt handled"
    /\ exit_status' = Some(0)
    /\ UNCHANGED <<assistant_running, temp_files, constructed, threads, serialized>>
    /\ UNCHANGED TurnLocals

NextFaults ==
    \/ Next
    \/ StageRaises
    \/ KeyboardInterruptInTry
    \/ KeyboardInterruptBeforeTry
    \/ KeyboardInterruptInFinally
    \/ HandleInterrupt

SpecFaults == Init /\ [][NextFaults]_vars

-----------------------------------------------------------------------------
(* Callers of semantic_match inside get_semantic_engine *)

\* how many calls of semantic_match each caller makes
MaxCalls == 2

InitEngine ==
    /\ pc = "engine"
    /\ assistant_running = TRUE
    /\ text = ""
    /\ semantic_engine = None
    /\ FreshTurn
    /\ temp_files = {}
    /\ exit_status = None
    /\ constructed = 0
    /\ threads = [c \in Callers |-> Outside(0)]
    /\ serialized \in BOOLEAN

EngineUnchanged ==
    UNCHANGED <<pc, assistant_running, text, rule_result, hybrid_result, semantic_calls,
                intent_result, response_text, should_execute, execution_message,
                exec_result, handler, started, ran, spoken, temp_files, exit_status,
                serialized>>

\* semantic_match(text) calls get_semantic_engine(); serialized callers wait for each other
EnterGetEngine(c) ==
    /\ threads[c].at = "outside"
    /\ threads[c].calls < MaxCalls
    /\ serialized => \A d \in Callers : threads[d].at = "outside"
    /\ threads' = [threads EXCEPT ![c].at = "check"]
    /\ UNCHANGED <<semantic_engine, constructed>>
    /\ EngineUnchanged

\* "if _semantic_engine is None:"
CheckEngine(c) ==
    /\ threads[c].at = "check"
    /\ threads' = [threads EXCEPT ![c].at =
                      IF EngineMissing(semantic_engine) THEN "construct" ELSE "return"]
    /\ UNCHANGED <<semantic_engine, constructed>>
    /\ EngineUnchanged

\* "SemanticEngine()": loads the model and precomputes the embeddings
ConstructEngine(c) ==
    /\ threads[c].at = "construct"
    /\ constructed' = constructed + 1
    /\ threads' = [threads EXCEPT ![c].at = "store",
                                  ![c].engine = Some(SemanticEngine(constructed + 1))]
    /\ UNCHANGED semantic_engine
    /\ EngineUnchanged

\* "_semantic_engine = ...": the new instance is stored in the module global
StoreEngine(c) ==
    /\ threads[c].at = "store"
    /\ semantic_engine' = threads[c].engine
    /\ threads' = [threads EXCEPT ![c].at = "return"]
    /\ UNCHANGED constructed
    /\ EngineUnchanged

\* "return _semantic_engine": the caller matches with the instance the global holds
ReturnEngine(c) ==
    /\ threads[c].at = "return"
    /\ threads' = [threads EXCEPT ![c].at = "outside",
                                  ![c].engine = semantic_engine,
                                  ![c].calls = @ + 1]
    /\ UNCHANGED <<semantic_engine, constructed>>
    /\ EngineUnchanged

NextEngine ==
    \E c \in Callers :
        \/ EnterGetEngine(c)
        \/ CheckEngine(c)
        \/ ConstructEngine(c)
        \/ StoreEngine(c)
        \/ ReturnEngine(c)

SpecEngine == InitEngine /\ [][NextEngine]_vars

-----------------------------------------------------------------------------
(* Properties *)

Returned(f) == pc = f \o " returned"

\* the slot keys an intent defines
DefinedSlots(intent) ==
    CASE intent \in {"OPEN_APP", "CLOSE_APP"} -> {"app_name"}
      [] intent \in {"SEARCH_WEB", "PLAY_YOUTUBE", "SEARCH_YOUTUBE"} -> {"query"}
      [] OTHER -> {}

endswith(t, k) == Len(k) <= Len(t) /\ SubSeq(t, Len(t) - Len(k) + 1, Len(t)) = k

\* C1: whatever IntentResult execute_intent is called with, an intent the registry does
\* not validate gets success=false with the denial message, no handler and no process;
\* a handler or a process only occurs in a call whose intent the registry validates.
C1_ValidatedBeforeDispatch ==
    Returned("execute_intent") =>
        LET intent == intent_result[1].intent
        IN  /\ ~validate_capability(intent) =>
                  /\ ~exec_result[1].success
                  /\ exec_result[1].message = "Intent " \o intent \o " cannot be executed"
                  /\ exec_result[1].intent = intent
                  /\ handler = "none"
                  /\ started = << >>
            /\ (handler # "none" \/ started # << >>) => validate_capability(intent)

\* C1 witness: a call with PLAY_YOUTUBE and a query was denied
C1_Witness ==
    /\ Returned("execute_intent")
    /\ intent_result[1].intent = "PLAY_YOUTUBE"
    /\ intent_result[1].slots = {<<"query", "cats">>}
    /\ exec_result[1].message = "Intent PLAY_YOUTUBE cannot be executed"
    /\ started = << >>

\* C2: every member of Intent other than UNKNOWN has exactly one entry in CAPABILITIES;
\* stated of each member at the moment the loop holds it as the turn's classification.
C2_EveryIntentRegisteredOnce ==
    \A i \in Intents \ {"UNKNOWN"} :
        (intent_result # None /\ intent_result[1].intent = i) =>
            Cardinality({k \in 1..Len(CAPABILITIES) : CAPABILITIES[k].intent = i}) = 1

\* C3: decide_action answers every (intent, confidence): UNKNOWN rejects; below 0.6
\* rejects with the repeat prompt; from 0.6 up to but not including 0.75 asks for
\* confirmation; from 0.75 executes; should_execute only for a known intent at >= 0.75.
C3_DecideActionThresholds ==
    /\ pc = "call" => ENABLED CallDecideAction
    /\ Returned("decide_action") =>
        LET i == intent_result[1].intent
            c == intent_result[1].confidence
        IN  /\ i = "UNKNOWN" =>
                  /\ ~should_execute
                  /\ response_text = "I did not understand that. Could you repeat?"
            /\ (i # "UNKNOWN" /\ c < 60) =>
                  /\ ~should_execute
                  /\ response_text = "I'm not sure what you said. Please repeat."
            /\ (i # "UNKNOWN" /\ 60 <= c /\ c < 75) =>
                  /\ ~should_execute
                  /\ startswith(response_text, "Did you want me to ")
                  /\ endswith(response_text, "?")
            /\ (i # "UNKNOWN" /\ c >= 75) => should_execute
            /\ should_execute => (i # "UNKNOWN" /\ c >= 75)

\* C3 witness: confidence exactly 0.6 asked for confirmation
C3_Witness ==
    /\ Returned("decide_action")
    /\ intent_result[1].intent = "CLOSE_APP"
    /\ intent_result[1].confidence = 60
    /\ response_text = "Did you want me to close firefox?"
    /\ ~should_execute

\* C4: a classify_hybrid call whose rule confidence is >= 0.75 returns decision_source
\* "rule" and the rule result itself, leaves semantic_intent and semantic_similarity
\* None, does not call semantic_match and does not touch the semantic engine.
C4_RulePathSkipsSemantic ==
    [][(pc = "classify" /\ pc' = "decide" /\ rule_result'[1].confidence >= 75) =>
          /\ hybrid_result'[1].decision_source = "rule"
          /\ hybrid_result'[1].intent_result = rule_result'[1]
          /\ hybrid_result'[1].semantic_intent = None
          /\ hybrid_result'[1].semantic_similarity = None
          /\ semantic_calls' = 0
          /\ semantic_engine' = semantic_engine]_vars

\* C4 witness: a rule decision at confidence 0.8 with the semantic engine never loaded
C4_Witness ==
    /\ pc = "decide"
    /\ rule_result[1].confidence = 80
    /\ hybrid_result[1].decision_source = "rule"
    /\ semantic_calls = 0
    /\ semantic_engine = None

\* C5: the slots of every IntentResult of the classification stage (the rule result and
\* the hybrid result) hold only keys the result's intent defines.
C5_SlotsDefinedForIntent ==
    /\ rule_result # None =>
          Keys(rule_result[1].slots) \subseteq DefinedSlots(rule_result[1].intent)
    /\ hybrid_result # None =>
          Keys(hybrid_result[1].intent_result.slots)
              \subseteq DefinedSlots(hybrid_result[1].intent_result.intent)

\* C6: with rule confidence below 0.75 and a similarity the semantic step accepts, the
\* result is decided by "semantic": the semantic intent, the similarity as confidence
\* (not a blend with the rule confidence) and the slots of the rule result.
C6_SemanticAcceptReusesRuleSlots ==
    (/\ hybrid_result # None
     /\ rule_result[1].confidence < 75
     /\ hybrid_result[1].semantic_similarity # None
     /\ SemanticAccepts(hybrid_result[1].semantic_similarity[1])) =>
        /\ hybrid_result[1].decision_source = "semantic"
        /\ hybrid_result[1].intent_result.intent = hybrid_result[1].semantic_intent[1]
        /\ hybrid_result[1].intent_result.confidence = hybrid_result[1].semantic_similarity[1]
        /\ hybrid_result[1].intent_result.slots = rule_result[1].slots
        /\ hybrid_result[1].intent_result.raw_text = text

\* C6 witness: a semantic decision that differs from the rule result in intent and
\* confidence and carries the rule's query slot
C6_Witness ==
    /\ hybrid_result # None
    /\ hybrid_result[1].decision_source = "semantic"
    /\ rule_result[1].intent = "SEARCH_WEB"
    /\ rule_result[1].confidence = 70
    /\ hybrid_result[1].intent_result.intent = "SEARCH_YOUTUBE"
    /\ hybrid_result[1].intent_result.confidence = 83
    /\ hybrid_result[1].intent_result.slots = {<<"query", "cats">>}

\* C7: with rule confidence below 0.75 the semantic result is used exactly when the
\* similarity is >= 0.80; below 0.80 the result is UNKNOWN.
C7_SemanticThresholdIs80 ==
    (/\ hybrid_result # None
     /\ rule_result[1].confidence < 75
     /\ hybrid_result[1].semantic_similarity # None) =>
        /\ hybrid_result[1].decision_source = "semantic"
              <=> hybrid_result[1].semantic_similarity[1] >= 80
        /\ hybrid_result[1].semantic_similarity[1] < 80
              => hybrid_result[1].intent_result.intent = "UNKNOWN"

C9_ValidateIffExecutableEntry ==
    /\ \A i \in Intents :
          validate_capability(i) <=>
              \E k \in 1..Len(CAPABILITIES) :
                  CAPABILITIES[k].intent = i /\ CAPABILITIES[k].executable
    /\ ~validate_capability("UNKNOWN")
    /\ (Returned("execute_intent") /\ intent_result[1].intent = "UNKNOWN") =>
          /\ handler = "none"
          /\ started = << >>
          /\ ~exec_result[1].success
          /\ exec_result[1].message = "Intent UNKNOWN cannot be executed"

\* C9 witness: execute_intent was called with UNKNOWN at confidence 1.0 and with slots
C9_Witness ==
    /\ Returned("execute_intent")
    /\ intent_result[1].intent = "UNKNOWN"
    /\ intent_result[1].confidence = 100
    /\ intent_result[1].slots = {<<"app_name", "firefox">>}
    /\ ~exec_result[1].success

\* C10: execute_intent for OPEN_APP with an app_name that is no key of ALLOWED_APPS
\* returns success=false and starts no process; without an app_name it returns
\* success=false with "No app name specified" and starts no process.
C10_OpenAppAllowlist ==
    (Returned("execute_intent") /\ intent_result[1].intent = "OPEN_APP") =>
        LET slots == intent_result[1].slots
        IN  /\ (HasKey(slots, "app_name") /\ Lookup(slots, "app_name") \notin Keys(ALLOWED_APPS)) =>
                  /\ ~exec_result[1].success
                  /\ started = << >>
            /\ ~HasKey(slots, "app_name") =>
                  /\ ~exec_result[1].success
                  /\ exec_result[1].message = "No app name specified"
                  /\ started = << >>

\* C10 witness: OPEN_APP with spotify, a known app outside the allowlist, was refused
C10_Witness ==
    /\ Returned("execute_intent")
    /\ intent_result[1].intent = "OPEN_APP"
    /\ HasKey(intent_result[1].slots, "app_name")
    /\ Lookup(intent_result[1].slots, "app_name") = "spotify"
    /\ exec_result[1].message = "App 'spotify' not in allowed list"
    /\ started = << >>

\* C11: in every turn of the loop that the rule classifier decides and that runs the
\* CLOSE_APP handler, each kill command started names a process in ALLOWED_PROCESSES,
\* and when the name the handler would kill for the classifier's app_name is outside
\* ALLOWED_PROCESSES the result is a failure and no kill command is started.
C11_CloseAppTargetsAllowedProcess ==
    (/\ handler = "_execute_close_app"
     /\ exec_result # None
     /\ hybrid_result[1].decision_source = "rule") =>
        LET slots == intent_result[1].slots
        IN  /\ \A k \in 1..Len(started) :
                  started[k][1] = "pkill" => started[k][3] \in Range(ALLOWED_PROCESSES)
            /\ (/\ HasKey(slots, "app_name")
                /\ Lookup(slots, "app_name") \notin Range(ALLOWED_PROCESSES)
                /\ Get(ALLOWED_APPS, Lookup(slots, "app_name"), "") \notin Range(ALLOWED_PROCESSES)) =>
                  /\ ~exec_result[1].success
                  /\ started = << >>

\* C12: the execute step of a turn always gets an ExecutionResult back from
\* execute_intent, never an exception: the loop goes on to speak, the result carries the
\* dispatched intent, an exception inside the handler has become success=false with
\* "Execution error: ...", and a failed result leaves the loop running.
C12_ExecuteIntentNeverRaises ==
    [][pc = "execute" =>
          /\ pc' = "speak"
          /\ exec_result' # None =>
                /\ exec_result'[1].intent = intent_result[1].intent
                /\ ~exec_result'[1].success => assistant_running' = assistant_running
                /\ startswith(exec_result'[1].message, "Execution error: ") =>
                      ~exec_result'[1].success]_vars

\* C12 witness: pkill could not be started, the handler does not catch that, and the turn
\* went on with the failure execute_intent made of it
C12_Witness ==
    /\ pc = "speak"
    /\ assistant_running
    /\ handler = "_execute_close_app"
    /\ exec_result # None
    /\ ~exec_result[1].success
    /\ exec_result[1].message = "Execution error: FileNotFoundError"
    /\ exec_result[1].intent = "CLOSE_APP"
    /\ execution_message = "I could not complete that action."

\* the scores _score_intent gives a text, for every intent classify scores
ScoresOf(t) ==
    LET normalized == strip(lower(t))
        words == split(normalized)
    IN  [i \in Intents \ {"UNKNOWN"} |-> _score_intent(normalized, words, i)]

\* the best score of a text, 0 when nothing scored
BestScore(t) ==
    LET sc == ScoresOf(t)
    IN  CHOOSE m \in {sc[i] : i \in DOMAIN sc} \cup {0} :
            \A i \in DOMAIN sc : sc[i] <= m

\* C13: for every text, classify's confidence is min(best score, 1.0) and lies in
\* [0, 1]; the result is UNKNOWN exactly when nothing scored above 0 or the best score
\* is below 0.4, and then it has no slots and the best score as its confidence; from a
\* best score of 0.4 on, the result is an intent that has the best score.
C13_RuleConfidenceAndFloor ==
    Returned("classify") =>
        LET rr == rule_result[1]
            best == BestScore(text)
        IN  /\ rr.confidence = Min(best, 100)
            /\ 0 <= rr.confidence /\ rr.confidence <= 100
            /\ rr.intent = "UNKNOWN" <=> (best <= 0 \/ best < 40)
            /\ rr.intent = "UNKNOWN" => (rr.slots = {} /\ rr.confidence = best)
            /\ best >= 40 => (rr.intent # "UNKNOWN" /\ ScoresOf(text)[rr.intent] = best)
            /\ rr.raw_text = text

\* C13 witness: a best score of exactly 0.4 ("hi" inside "thing", three words) returned
\* the best intent
C13_Witness ==
    /\ Returned("classify")
    /\ text = "do the thing"
    /\ BestScore(text) = 40
    /\ rule_result[1] = IntentResult("GREETING", 40, {}, "do the thing")

\* C14: execute_intent called for SEARCH_WEB, PLAY_YOUTUBE or SEARCH_YOUTUBE with no
\* query slot returns success=false and starts no external process.
C14_MissingQueryIsHandledFailure ==
    (/\ Returned("execute_intent")
     /\ intent_result[1].intent \in {"SEARCH_WEB", "PLAY_YOUTUBE", "SEARCH_YOUTUBE"}
     /\ ~HasKey(intent_result[1].slots, "query")) =>
        /\ ~exec_result[1].success
        /\ started = << >>

\* the response main.py owes the turn, from what the turn decided and did
OwedResponse ==
    LET ir == intent_result[1]
    IN  IF ~should_execute
        THEN IF ir.intent = "UNKNOWN"
             THEN {"I did not understand that. Could you repeat?"}
             ELSE IF ir.confidence < 60
             THEN {"I'm not sure what you said. Please repeat."}
             ELSE {"Did you want me to " \o get_action_description(ir) \o "?"}
        ELSE IF ~validate_capability(ir.intent)
        THEN {"I cannot execute that action."}
        ELSE IF exec_result = None
        THEN {}
        ELSE IF ~exec_result[1].success
        THEN {"I could not complete that action."}
        ELSE IF ir.intent = "EXIT"
        THEN {get_shutdown_message(ASSISTANT_NAME)}
        ELSE {exec_result[1].message}

\* C15: a turn that has its classification goes from decide to execute to speak without
\* another way out; the text handed to speech output is never empty and is the repeat
\* prompt on reject, the confirmation question on confirm, "I cannot execute that
\* action." on a registry denial, the execution's message on success (the shutdown
\* message when the executed intent is EXIT) and "I could not complete that action." on
\* failure; and it is that text that is played, unless speech output itself fails.
C15_EveryTurnSpeaks ==
    /\ [](pc \in {"speak", "finally"} =>
             /\ execution_message # ""
             /\ execution_message \in OwedResponse
             /\ pc = "finally" => spoken = Some(execution_message))
    /\ [][/\ pc = "decide" => pc' = "execute"
          /\ pc = "execute" => pc' = "speak"
          /\ pc = "speak" => pc' \in {"finally", "crashed"}]_vars

\* C15 witness: a turn the registry denied has played the denial notice
C15_Witness ==
    /\ pc = "finally"
    /\ should_execute
    /\ intent_result[1].intent = "PLAY_YOUTUBE"
    /\ exec_result = None
    /\ spoken = Some("I cannot execute that action.")

\* C16: a turn whose transcript is "exit" is classified as EXIT, is executed with
\* success, and ends the loop: at the end of the turn assistant_running is false.
C16_SayingExitQuits ==
    text = "exit" =>
        /\ intent_result # None => intent_result[1].intent = "EXIT"
        /\ pc \in {"speak", "finally"} =>
              /\ exec_result # None
              /\ exec_result[1].success
              /\ ~assistant_running

\* C17: scenario A, transcript "open firefox": the rule result is OPEN_APP with
\* confidence >= 0.75 and app_name firefox, the hybrid decision is the rule's, the policy
\* executes, the registry allows OPEN_APP, and when the executable starts the result is
\* success with "Opened firefox".
C17_ScenarioOpenFirefox ==
    text = "open firefox" =>
        /\ rule_result # None =>
              /\ rule_result[1].intent = "OPEN_APP"
              /\ rule_result[1].confidence >= 75
              /\ rule_result[1].slots = {<<"app_name", "firefox">>}
              /\ hybrid_result[1].decision_source = "rule"
              /\ intent_result = rule_result
        /\ pc \in {"execute", "speak", "finally"} => should_execute
        /\ validate_capability("OPEN_APP")
        /\ pc \in {"speak", "finally"} =>
              /\ handler = "_execute_open_app"
              /\ started # << >> =>
                    /\ started = << <<"firefox">> >>
                    /\ exec_result[1].success
                    /\ exec_result[1].message = "Opened firefox"
                    /\ exec_result[1].intent = "OPEN_APP"

\* C17 witness: the turn "open firefox" started firefox and answers "Opened firefox"
C17_Witness ==
    /\ text = "open firefox"
    /\ pc = "finally"
    /\ started = << <<"firefox">> >>
    /\ exec_result[1].success
    /\ spoken = Some("Opened firefox")

\* C18: scenario B, transcript "open zoom": the classification is OPEN_APP without an
\* app_name slot, the policy executes, the registry allows it, and execute_intent
\* returns success=false with "No app name specified" and starts no process.
C18_ScenarioOpenZoom ==
    text = "open zoom" =>
        /\ intent_result # None =>
              /\ intent_result[1].intent = "OPEN_APP"
              /\ ~HasKey(intent_result[1].slots, "app_name")
        /\ pc \in {"execute", "speak", "finally"} => should_execute
        /\ validate_capability("OPEN_APP")
        /\ pc \in {"speak", "finally"} =>
              /\ handler = "_execute_open_app"
              /\ exec_result # None
              /\ ~exec_result[1].success
              /\ exec_result[1].message = "No app name specified"
              /\ started = << >>

\* C18 witness: the turn "open zoom" ran the handler and ends with the failure notice
C18_Witness ==
    /\ text = "open zoom"
    /\ pc = "finally"
    /\ handler = "_execute_open_app"
    /\ exec_result[1].message = "No app name specified"
    /\ started = << >>
    /\ spoken = Some("I could not complete that action.")

\* C19: scenario C, transcript "do the thing": the rule result is UNKNOWN with a
\* confidence below 0.4; when the similarity is below the acceptance threshold the
\* hybrid result is UNKNOWN and decide_action gives the "did not understand" response
\* with should_execute false.
C19_ScenarioDoTheThing ==
    text = "do the thing" =>
        /\ rule_result # None =>
              /\ rule_result[1].intent = "UNKNOWN"
              /\ rule_result[1].confidence < 40
        /\ (/\ hybrid_result # None
            /\ hybrid_result[1].semantic_similarity # None
            /\ ~SemanticAccepts(hybrid_result[1].semantic_similarity[1])) =>
              /\ intent_result[1].intent = "UNKNOWN"
              /\ pc \in {"execute", "speak", "finally"} =>
                    /\ response_text = "I did not understand that. Could you repeat?"
                    /\ ~should_execute

\* C20: scenario D, transcript "hello": the rule result is GREETING with confidence
\* >= 0.75, the policy executes, the registry allows GREETING, and execute_intent
\* returns success with "Hello! How can I help you?".
C20_ScenarioHello ==
    text = "hello" =>
        /\ rule_result # None =>
              /\ rule_result[1].intent = "GREETING"
              /\ rule_result[1].confidence >= 75
              /\ intent_result = rule_result
        /\ pc \in {"execute", "speak", "finally"} => should_execute
        /\ validate_capability("GREETING")
        /\ pc \in {"speak", "finally"} =>
              /\ handler = "_execute_greeting"
              /\ exec_result # None
              /\ exec_result[1].success
              /\ exec_result[1].message = "Hello! How can I help you?"
              /\ execution_message = "Hello! How can I help you?"

\* C20 witness: the turn "hello" has answered with the greeting
C20_Witness ==
    /\ text = "hello"
    /\ pc = "finally"
    /\ handler = "_execute_greeting"
    /\ spoken = Some("Hello! How can I help you?")

\* the intents whose handler waits for its external command
BoundedActions == {"CLOSE_APP", "PLAY_MUSIC", "STOP_MUSIC", "SYSTEM_INFO"}

\* C21: execute_intent for a bounded action whose external command ran: a non-zero exit
\* status gives success=false, and success=true is returned only when the command
\* exited with status 0.
C21_NonZeroExitIsFailure ==
    (/\ Returned("execute_intent")
     /\ intent_result[1].intent \in BoundedActions
     /\ ran # << >>) =>
        /\ ran[1].outcome = "nonzero" => ~exec_result[1].success
        /\ exec_result[1].success => ran[1].outcome = "ok"

\* C22: every execute_intent call returns a result; every subprocess call the controller
\* waits for has a timeout (5 s for CLOSE_APP, PLAY_MUSIC and STOP_MUSIC, 2 s for
\* SYSTEM_INFO); and when a bounded action's command outlives its timeout the handler
\* itself returns success=false, it is not the dispatch boundary that catches it.
C22_TimeoutsGiveFailure ==
    /\ pc # "execute_intent raised"
    /\ Returned("execute_intent") =>
          /\ exec_result # None
          /\ \A k \in 1..Len(ran) : ran[k].blocking => ran[k].timeout > 0
          /\ (intent_result[1].intent \in BoundedActions /\ ran # << >>) =>
                /\ ran[1].blocking
                /\ ran[1].timeout = (IF intent_result[1].intent = "SYSTEM_INFO" THEN 2 ELSE 5)
                /\ ran[1].outcome = "TimeoutExpired" =>
                      /\ ~exec_result[1].success
                      /\ ~startswith(exec_result[1].message, "Execution error: ")

\* C22 witness: pkill outlived its 5 seconds and CLOSE_APP returned the timeout failure
C22_Witness ==
    /\ Returned("execute_intent")
    /\ intent_result[1].intent = "CLOSE_APP"
    /\ ran # << >>
    /\ ran[1].argv = <<"pkill", "-f", "firefox">>
    /\ ran[1].timeout = 5
    /\ ran[1].outcome = "TimeoutExpired"
    /\ exec_result[1] = ExecutionResult(FALSE, "Close operation timed out", "CLOSE_APP", {})

\* the place of an intent in the Intent enumeration
IntentIndex(i) == CHOOSE k \in 1..Len(Intent) : Intent[k] = i

\* C23: when classify returns an intent, it is one whose unclamped score is the largest
\* of all intents, and no intent earlier in the Intent enumeration has that score too;
\* calling classify again with the same text returns the same result.
C23_FirstMaximumWins ==
    /\ [](Returned("classify") /\ rule_result[1].intent # "UNKNOWN" =>
             LET sc == ScoresOf(text)
                 won == rule_result[1].intent
             IN  /\ \A i \in DOMAIN sc : sc[i] <= sc[won]
                 /\ \A i \in DOMAIN sc : sc[i] = sc[won] => IntentIndex(won) <= IntentIndex(i))
    /\ [][Returned("classify") => rule_result' = rule_result]_vars

\* C23 witness: for "exit" CLOSE_APP and EXIT both score 0.9 and CLOSE_APP is returned
C23_Witness ==
    /\ Returned("classify")
    /\ text = "exit"
    /\ ScoresOf(text)["CLOSE_APP"] = 90
    /\ ScoresOf(text)["EXIT"] = 90
    /\ rule_result[1].intent = "CLOSE_APP"

\* C24: the GREETING score contains the +0.6 only when the first word is hello, hi or
\* hey and the text has at most 3 words; for a text of 4 or more words that starts with
\* a greeting word the GREETING score is the keyword score alone.
C24_GreetingBoostNeedsShortText ==
    Returned("classify") =>
        LET normalized == strip(lower(text))
            words == split(normalized)
        IN  (Len(words) >= 4 /\ FirstWordIn(words, {"hello", "hi", "hey"})) =>
                ScoresOf(text)["GREETING"]
                    = KeywordScore(normalized, INTENT_PATTERNS("GREETING"), 1)

\* C25: the policy's decision is a function of intent and confidence alone and does not
\* follow the registry's requires_confirmation flag: a turn classified CLOSE_APP (for
\* which the flag is set) with confidence >= 0.75 gets should_execute and its execute
\* step runs the CLOSE_APP handler, in the same turn.
C25_PolicyIgnoresConfirmationFlag ==
    /\ [](pc \in {"execute", "speak", "finally"} =>
             /\ should_execute =
                   decide_action(IntentResult(intent_result[1].intent,
                                              intent_result[1].confidence, {}, ""))[2]
             /\ (intent_result[1].intent = "CLOSE_APP" /\ intent_result[1].confidence >= 75) =>
                   /\ requires_confirmation("CLOSE_APP")
                   /\ should_execute)
    /\ [][(/\ pc = "execute"
           /\ intent_result[1].intent = "CLOSE_APP"
           /\ intent_result[1].confidence >= 75) =>
              /\ handler' = "_execute_close_app"
              /\ text' = text
              /\ pc' = "speak"]_vars

\* C25 witness: the turn "close firefox" ran pkill without a confirmation turn
C25_Witness ==
    /\ text = "close firefox"
    /\ pc = "speak"
    /\ requires_confirmation("CLOSE_APP")
    /\ should_execute
    /\ handler = "_execute_close_app"
    /\ started = << <<"pkill", "-f", "firefox">> >>
    /\ exec_result[1].message = "Closed firefox"


\* C26: with callers that run one after the other the SemanticEngine is constructed at
\* most once per process: the first call of semantic_match constructs it, with one
\* embedding per intent of CANONICAL_PHRASES, and every later call gets that same
\* instance and constructs nothing; only callers whose first-use checks interleave
\* before the instance is stored can construct it a second time.
C26_EngineConstructedOnce ==
    /\ [](/\ constructed > 1 => ~serialized
          /\ serialized =>
                \A c \in Callers :
                    (threads[c].at = "outside" /\ threads[c].calls > 0) =>
                        /\ constructed = 1
                        /\ semantic_engine = Some(SemanticEngine(1))
                        /\ threads[c].engine = semantic_engine
                        /\ semantic_engine[1].intent_embeddings = CANONICAL_INTENTS)
    /\ [][(serialized /\ semantic_engine # None) =>
              UNCHANGED <<semantic_engine, constructed>>]_vars

\* two concurrent callers both passed the check before either stored: two instances
\* were constructed and the callers hold different ones
C26_Witness ==
    /\ ~serialized
    /\ constructed = 2
    /\ \E c, d \in Callers :
          /\ threads[c].at = "outside" /\ threads[c].calls > 0
          /\ threads[d].at = "outside" /\ threads[d].calls > 0
          /\ threads[c].engine # threads[d].engine


\* the turn's final intent is EXIT, the policy said execute, the registry allowed it and
\* the execution succeeded
ExitTurnSucceeded ==
    /\ intent_result # None
    /\ intent_result[1].intent = "EXIT"
    /\ should_execute
    /\ validate_capability(intent_result[1].intent)
    /\ exec_result # None
    /\ exec_result[1].success

\* C27: the loop stops after a turn exactly when the turn's final intent is EXIT, the
\* policy said execute, the registry allowed it and the execution succeeded; in that turn
\* the shutdown message is what was spoken, and nothing is recorded afterwards.  After a
\* turn with any other outcome the loop starts the next turn.
C27_LoopStopsOnlyOnExit ==
    /\ [](pc = "finally" =>
            /\ ~assistant_running <=> ExitTurnSucceeded
            /\ ExitTurnSucceeded => spoken = Some(get_shutdown_message(ASSISTANT_NAME)))
    /\ [][/\ pc = "finally" => pc' = IF ExitTurnSucceeded THEN "terminated" ELSE "record"
          /\ pc = "terminated" => FALSE]_vars

\* the loop has stopped after a turn that said goodbye
C27_Witness ==
    /\ pc = "terminated"
    /\ ~assistant_running
    /\ intent_result[1].intent = "EXIT"
    /\ spoken = Some(get_shutdown_message(ASSISTANT_NAME))


\* C28: every IntentResult classify_hybrid returns is UNKNOWN with confidence 0 or a known
\* intent with confidence >= 0.75; so in the main loop decide_action never answers with
\* its low-confidence message nor with its confirmation question: a known intent is
\* always answered "Intent detected" with should_execute true, UNKNOWN with the request
\* to repeat.
C28_NoConfirmationEndToEnd ==
    /\ hybrid_result # None =>
          \/ /\ hybrid_result[1].intent_result.intent = "UNKNOWN"
             /\ hybrid_result[1].intent_result.confidence = 0
          \/ /\ hybrid_result[1].intent_result.intent # "UNKNOWN"
             /\ hybrid_result[1].intent_result.confidence >= 75
    /\ pc \in {"execute", "speak", "finally"} =>
          /\ should_execute <=> intent_result[1].intent # "UNKNOWN"
          /\ response_text =
                IF intent_result[1].intent = "UNKNOWN"
                THEN "I did not understand that. Could you repeat?"
                ELSE "Intent detected: " \o intent_result[1].intent

\* the rule classifier was in the confirmation band (0.6 <= c < 0.75) and the policy
\* still saw no such confidence: the cascade replaced the result before decide_action
C28_Witness ==
    /\ pc = "execute"
    /\ rule_result[1].intent # "UNKNOWN"
    /\ rule_result[1].confidence >= 60
    /\ rule_result[1].confidence < 75
    /\ intent_result[1].intent = "UNKNOWN"
    /\ ~should_execute


YouTubeIntents == {"PLAY_YOUTUBE", "SEARCH_YOUTUBE"}

\* C29: a turn whose final intent is PLAY_YOUTUBE or SEARCH_YOUTUBE starts no process:
\* validate_capability is false for these intents, the main loop answers "I cannot
\* execute that action." without calling execute_intent, execute_intent called directly
\* returns its denial result, and no call of execute_intent ever reaches
\* _execute_play_youtube or _execute_search_youtube.
C29_YouTubeNeverRuns ==
    /\ handler \notin {"_execute_play_youtube", "_execute_search_youtube"}
    /\ (intent_result # None /\ intent_result[1].intent \in YouTubeIntents) =>
          /\ ~validate_capability(intent_result[1].intent)
          /\ started = << >>
          /\ ran = << >>
          /\ pc \in {"speak", "finally"} =>
                /\ should_execute
                /\ exec_result = None
                /\ execution_message = "I cannot execute that action."
          /\ pc = "finally" => spoken = Some("I cannot execute that action.")
          /\ pc = "execute_intent returned" =>
                exec_result = Some(ExecutionResult(FALSE,
                                      "Intent " \o intent_result[1].intent \o " cannot be executed",
                                      intent_result[1].intent, {}))

\* "play despacito" was classified PLAY_YOUTUBE by the rules with confidence >= 0.75 and
\* the turn ended with the refusal spoken
C29_Witness ==
    /\ pc = "finally"
    /\ text = "play despacito"
    /\ hybrid_result[1].decision_source = "rule"
    /\ intent_result[1].intent = "PLAY_YOUTUBE"
    /\ intent_result[1].confidence >= 75
    /\ spoken = Some("I cannot execute that action.")


\* the positions of the loop where no turn is in progress
OutsideTurn == {"record", "terminated", "crashed", "interrupted", "interrupt handled"}

\* C30: however a turn ends (it completes, a stage raises, or a keyboard interrupt
\* arrives), its input and output files are deleted before control leaves the turn; a
\* keyboard interrupt ends the session with no further stage of the turn run, and any
\* other exception ends the session with exit status 1.
C30_TurnEndsClean ==
    /\ [](/\ pc \in OutsideTurn => temp_files = {}
          /\ pc = "crashed" => exit_status = Some(1))
    /\ [][/\ pc' = "interrupted" => UNCHANGED TurnLocals
          /\ pc = "interrupted" => (pc' = "interrupt handled" /\ UNCHANGED TurnLocals)
          /\ pc = "interrupt handled" => FALSE
          /\ pc = "crashed" => FALSE]_vars

=============================================================================
